---- MODULE Spec2Model ----
(***************************************************************************)
(* Model of runNonInteractive (packages/cli/src/nonInteractiveCli.ts): the *)
(* non-interactive session driver.  The driver is one async function; an   *)
(* action of the model is one run of its code between two suspension       *)
(* points (the call, the for-await on the event stream, the await on       *)
(* executeToolCall, the await on shutdownTelemetry), since JavaScript runs *)
(* that code without interleaving.  The agent client, the tool executor,   *)
(* the clock, the holder of the AbortController and the standard output    *)
(* pipe are the environment.                                               *)
(*                                                                         *)
(* Strings are tuples of tokens (<<"a">>, <<"search", "-", "0">>), string  *)
(* concatenation is \o.  A value that may be undefined is None or Some(v). *)
(***************************************************************************)
EXTENDS Integers, Sequences, FiniteSets, TLC

VARIABLES
    pc,                \* where the driver is suspended
    maxSessionTurns,   \* config.getMaxSessionTurns()
    jsonlOutput,       \* parameter jsonlOutput
    telemetryInit,     \* what isTelemetrySdkInitialized() returned, None before
    turnCount,
    currentMessages,
    functionCalls,
    fcIdx,             \* position of the for-of loop over functionCalls
    callId,            \* const callId of the tool call being executed
    toolResponseParts,
    aborted,           \* abortController.signal.aborted
    now,               \* the clock read by Date.now() and new Date()
    stdout,            \* what process.stdout.write has written
    stderr,            \* what console.error has written
    patched,           \* state of the ConsolePatcher
    telemetryDown,     \* shutdownTelemetry has completed
    exitCode,          \* argument of process.exit, NoExit while none
    sendLog,           \* history: parts of every sendMessageStream call
    execLog,           \* history: requestInfo of every executeToolCall of the turn
    respLog,           \* history: responses of the tool calls of the last tool loop
    contentLog,        \* history: text of every content event the driver handled
    outMark,           \* history: length of stdout when the turn started
    evCount,           \* history: events received in the session
    handled,           \* history: events the driver wrote or accumulated
    caught             \* history: number of entries into the catch block

vars == <<pc, maxSessionTurns, jsonlOutput, telemetryInit, turnCount,
          currentMessages, functionCalls, fcIdx, callId, toolResponseParts,
          aborted, now, stdout, stderr, patched, telemetryDown, exitCode,
          sendLog, execLog, respLog, contentLog, outMark, evCount, handled,
          caught>>

-----------------------------------------------------------------------------
(* Bounds of the model *)

MaxTurns == 2
MaxEvents == 2
MaxClock == 1

-----------------------------------------------------------------------------
(* Values *)

None == <<>>
Some(v) == <<v>>
Get(m) == m[1]

\* a ?? b
Coalesce(m, d) == IF m = None THEN d ELSE Get(m)

NoExit == -1

Input == <<"hello">>

Limits == -1 .. (MaxTurns - 1)

Texts == { <<"a">>, <<"b", "\n">> }

ArgsQ == <<"{q:x}">>
EmptyObject == <<"{}">>
PromptId == <<"prompt-1">>

\* JSON null, a reserved token no program string contains
Null == <<"#null">>

ToolCallRequests ==
    { [name |-> <<"search">>, args |-> Some(ArgsQ), callId |-> None],
      [name |-> <<"read">>, args |-> None, callId |-> Some(<<"id1">>)] }

ContentEvent(t) == [type |-> "Content", value |-> t]
ToolCallRequestEvent(r) == [type |-> "ToolCallRequest", value |-> r]

\* an event of another GeminiEventType (a thought, a usage report, ...)
OtherEvent == [type |-> "Thought", value |-> <<>>]

Events == { ContentEvent(t) : t \in Texts }
          \cup { ToolCallRequestEvent(r) : r \in ToolCallRequests }
          \cup { OtherEvent }

\* Parts a tool may return: a string, a Part object, or null
StrPart(s) == [str |-> s]
ObjPart == [obj |-> "functionResponse"]
NullPart == [nul |-> TRUE]

PartsUndefined == [undef |-> TRUE]
PartsOne(p) == [one |-> p]
PartsArr(ps) == [arr |-> ps]

ErrBoom == [message |-> <<"boom">>]

ToolResponse(d, e, p) == [resultDisplay |-> d, error |-> e, responseParts |-> p]

\* the empty string: a display string or a text part may be ''
EmptyString == <<>>

ToolResponses ==
    { ToolResponse(None, None, PartsUndefined),
      ToolResponse(Some(<<"disp">>), None,
                   PartsArr(<<StrPart(<<"t">>), NullPart, StrPart(EmptyString),
                              ObjPart>>)),
      ToolResponse(None, Some(ErrBoom), PartsUndefined),
      ToolResponse(Some(<<"disp">>), Some(ErrBoom), PartsOne(ObjPart)),
      ToolResponse(Some(EmptyString), None, PartsOne(StrPart(EmptyString))) }

LimitNotice == [notice |-> "Reached max session turns"]
CancelNotice == [notice |-> "Operation cancelled."]
FatalDiag == [fatal |-> "parseAndFormatApiError"]
ToolDiag(name, msg) == [tool |-> name, msg |-> msg]

-----------------------------------------------------------------------------
(* Output *)

Ch(c) == [ch |-> c]
Newline == Ch("\n")

\* mutant: the text is written as a line, as console.log would
WriteTextLine(out, t) == (out \o [i \in 1 .. Len(t) |-> Ch(t[i])]) \o <<Newline>>

\* process.stdout.write(t) of a string t
WriteText(out, t) == out \o [i \in 1 .. Len(t) |-> Ch(t[i])]

\* new Date().toISOString()
ToISOString(t) == <<"iso", ToString(t)>>

\* JSON.stringify(o) of an object whose properties are None (undefined) or
\* Some(v): an undefined property is left out; the text has no raw newline
Stringify(o) == [k \in {f \in DOMAIN o : o[f] # None} |-> Get(o[k])]

\* process.stdout.write(JSON.stringify(jsonlEvent) + '\n')
WriteJsonl(out, jsonlEvent) ==
    out \o << [json |-> Stringify(jsonlEvent)], Newline >>

TokenEvent(value, t) ==
    [type |-> Some("token"), data |-> Some(value),
     timestamp |-> Some(ToISOString(t))]

ToolCallEvent(req, t) ==
    [type |-> Some("tool_call"),
     data |-> Some(Stringify([name |-> Some(req.name), args |-> req.args,
                              call_id |-> req.callId])),
     timestamp |-> Some(ToISOString(t))]

\* a || b on strings: the empty string and undefined are falsy
Truthy(m) == m # None /\ Get(m) # <<>>

\* mutant: the error message takes precedence over the display string
ResultOfErrorFirst(resp) ==
    IF resp.error # None THEN Get(resp.error).message
    ELSE IF Truthy(resp.resultDisplay) THEN Get(resp.resultDisplay)
    ELSE <<"Success">>

ResultOf(resp) ==
    IF Truthy(resp.resultDisplay) THEN Get(resp.resultDisplay)
    ELSE IF resp.error # None THEN Get(resp.error).message
    ELSE <<"Success">>

ErrorOf(resp) ==
    IF resp.error # None THEN Get(resp.error).message ELSE Null

\* mutant: the identifier and the name are written in each other's place
ToolResultEventSwapped(cid, fc, resp, t) ==
    [type |-> Some("tool_result"),
     data |-> Some(Stringify([call_id |-> Some(fc.name), name |-> Some(cid),
                              result |-> Some(ResultOf(resp)),
                              error |-> Some(ErrorOf(resp))])),
     timestamp |-> Some(ToISOString(t))]

ToolResultEvent(cid, fc, resp, t) ==
    [type |-> Some("tool_result"),
     data |-> Some(Stringify([call_id |-> Some(cid), name |-> Some(fc.name),
                              result |-> Some(ResultOf(resp)),
                              error |-> Some(ErrorOf(resp))])),
     timestamp |-> Some(ToISOString(t))]

-----------------------------------------------------------------------------
(* Tool calls *)

FunctionCallOf(req) == [name |-> req.name, args |-> req.args, id |-> req.callId]

\* fc.id ?? `${fc.name}-${Date.now()}`
ResolveCallId(fc, t) == Coalesce(fc.id, fc.name \o <<"-", ToString(t)>>)

RequestInfo(cid, fc) ==
    [callId |-> cid, name |-> fc.name, args |-> Coalesce(fc.args, EmptyObject),
     isClientInitiated |-> FALSE, prompt_id |-> PromptId]

PartTruthy(p) ==
    IF "str" \in DOMAIN p THEN p.str # <<>> ELSE "obj" \in DOMAIN p

\* the parts one tool response adds to toolResponseParts
RECURSIVE PushParts(_, _)
PushParts(acc, ps) ==
    IF ps = <<>> THEN acc
    ELSE LET part == Head(ps) IN
         PushParts(IF "str" \in DOMAIN part THEN Append(acc, [text |-> part.str])
                   ELSE IF PartTruthy(part) THEN Append(acc, part)
                   ELSE acc,
                   Tail(ps))

NormalizeParts(acc, rp) ==
    IF "undef" \in DOMAIN rp THEN acc
    ELSE IF "one" \in DOMAIN rp
         THEN (IF PartTruthy(rp.one) THEN PushParts(acc, <<rp.one>>) ELSE acc)
         ELSE PushParts(acc, rp.arr)

UserMessage(parts) == [role |-> "user", parts |-> parts]

\* mutant: the message of the tool responses is added to the batch
NextBatchAppended(msgs, parts) == Append(msgs, UserMessage(parts))

\* currentMessages = [{ role: 'user', parts: toolResponseParts }]
NextBatch(msgs, parts) == <<UserMessage(parts)>>

\* mutant: the parts of the initial message are sent again
FirstPartsStale(msgs) == <<[text |-> Input]>>

\* currentMessages[0]?.parts || []
FirstParts(msgs) == IF Len(msgs) > 0 THEN msgs[1].parts ELSE <<>>

-----------------------------------------------------------------------------
(* The driver *)

Awaits == {"awaitEvent", "awaitTool", "awaitShutdown"}

config == <<maxSessionTurns, jsonlOutput>>
env == <<aborted, now>>
counters == <<evCount, handled, contentLog>>
loopVars == <<turnCount, currentMessages, functionCalls, fcIdx, callId,
              toolResponseParts, sendLog, execLog, outMark>>
outVars == <<stdout, stderr, patched, telemetryInit, telemetryDown, exitCode,
             caught>>

Init ==
    /\ pc = "start"
    /\ maxSessionTurns \in Limits
    /\ jsonlOutput \in BOOLEAN
    /\ telemetryInit = None
    /\ turnCount = 0
    /\ currentMessages = <<>>
    /\ functionCalls = <<>>
    /\ fcIdx = 0
    /\ callId = None
    /\ toolResponseParts = <<>>
    /\ aborted = FALSE
    /\ now = 0
    /\ stdout = <<>>
    /\ stderr = <<>>
    /\ patched = "new"
    /\ telemetryDown = FALSE
    /\ exitCode = NoExit
    /\ sendLog = <<>>
    /\ execLog = <<>>
    /\ respLog = <<>>
    /\ contentLog = <<>>
    /\ outMark = 0
    /\ evCount = 0
    /\ handled = 0
    /\ caught = 0

\* mutant: the comparison is off by one
LimitExceededLate(tc, limit) == limit >= 0 /\ tc > limit + 1

\* config.getMaxSessionTurns() >= 0 && turnCount > config.getMaxSessionTurns()
LimitExceeded(tc, limit) == limit >= 0 /\ tc > limit

\* mutant: the test of the flag is inverted
CancelInverted(flag) == ~flag

\* mutant: the flag is not looked at
CancelIgnored(flag) == FALSE

\* if (abortController.signal.aborted), at the top of the for-await body
CancelObserved(flag) == flag

\* mutant: the loop stops after the first call
LoopDoneAfterFirst(idx, fcs) == idx >= 1

\* the for-of loop over functionCalls has no further element after idx
LoopDone(idx, fcs) == idx >= Len(fcs)

\* the driver suspends at an await with the output written so far
Suspend(at, out, err, pat) ==
    /\ pc' = at
    /\ stdout' = out
    /\ stderr' = err
    /\ patched' = pat
    /\ UNCHANGED <<telemetryInit, telemetryDown, exitCode, caught>>

\* a return inside the try block: the finally block runs, up to the await on
\* shutdownTelemetry when isTelemetrySdkInitialized() says the SDK is active
Finally(out, err) ==
    /\ stdout' = out
    /\ stderr' = err
    /\ patched' = "cleaned"
    /\ \E active \in BOOLEAN :
          /\ telemetryInit' = Some(active)
          /\ pc' = IF active THEN "awaitShutdown" ELSE "returned"
    /\ UNCHANGED <<telemetryDown, exitCode, caught>>

\* mutant: the catch block prints the diagnostic and lets the function return
CatchAndReturn(out, err, pat) ==
    /\ stdout' = out
    /\ stderr' = Append(err, FatalDiag)
    /\ caught' = caught + 1
    /\ pc' = "returned"
    /\ patched' = "cleaned"
    /\ UNCHANGED <<telemetryInit, telemetryDown, exitCode>>

\* an exception inside the try block: the catch block prints the diagnostic
\* and process.exit(1) ends the process there, before the finally block
Catch(out, err, pat) ==
    /\ stdout' = out
    /\ stderr' = Append(err, FatalDiag)
    /\ caught' = caught + 1
    /\ exitCode' = 1
    /\ pc' = "exited"
    /\ patched' = pat
    /\ UNCHANGED <<telemetryInit, telemetryDown>>

\* the top of the while loop, up to the for-await on the new stream
BeginTurn(msgs, out, err, pat, throws) ==
    LET tc == turnCount + 1 IN
    /\ turnCount' = tc
    /\ currentMessages' = msgs
    /\ fcIdx' = 0
    /\ callId' = None
    /\ toolResponseParts' = <<>>
    /\ IF LimitExceeded(tc, maxSessionTurns)
       THEN /\ throws = FALSE
            /\ Finally(out, Append(err, LimitNotice))
            /\ UNCHANGED <<functionCalls, sendLog, execLog, outMark>>
       ELSE /\ functionCalls' = <<>>
            /\ execLog' = <<>>
            /\ outMark' = Len(out)
            /\ sendLog' = Append(sendLog, FirstParts(msgs))
            /\ IF throws THEN Catch(out, err, pat)
               ELSE Suspend("awaitEvent", out, err, pat)

\* one iteration of the for-of loop, up to the await on executeToolCall
Dispatch(idx, trp, out, err) ==
    LET fc == functionCalls[idx]
        cid == ResolveCallId(fc, now)
    IN /\ fcIdx' = idx
       /\ callId' = cid
       /\ toolResponseParts' = trp
       /\ execLog' = Append(execLog, RequestInfo(cid, fc))
       /\ Suspend("awaitTool", out, err, patched)
       /\ UNCHANGED <<turnCount, currentMessages, functionCalls, sendLog, outMark>>

\* runNonInteractive is called; throws: sendMessageStream throws
Run(throws) ==
    /\ pc = "start"
    /\ BeginTurn(<<UserMessage(<<[text |-> Input]>>)>>, stdout, stderr,
                 "patched", throws)
    /\ UNCHANGED <<config, env, counters, respLog>>

\* the stream yields an event
RecvEvent(event) ==
    /\ pc = "awaitEvent"
    /\ evCount < MaxEvents
    /\ evCount' = evCount + 1
    /\ UNCHANGED <<config, env, respLog, turnCount, currentMessages, fcIdx,
                   callId, toolResponseParts, sendLog, execLog, outMark>>
    /\ IF CancelObserved(aborted)
       THEN /\ Finally(stdout, Append(stderr, CancelNotice))
            /\ UNCHANGED <<functionCalls, handled, contentLog>>
       ELSE IF event.type = "Content"
       THEN /\ Suspend("awaitEvent",
                       IF jsonlOutput
                       THEN WriteJsonl(stdout, TokenEvent(event.value, now))
                       ELSE WriteText(stdout, event.value),
                       stderr, patched)
            /\ handled' = handled + 1
            /\ contentLog' = Append(contentLog, event.value)
            /\ UNCHANGED functionCalls
       ELSE IF event.type = "ToolCallRequest"
       THEN /\ Suspend("awaitEvent",
                       IF jsonlOutput
                       THEN WriteJsonl(stdout, ToolCallEvent(event.value, now))
                       ELSE stdout,
                       stderr, patched)
            /\ functionCalls' = Append(functionCalls, FunctionCallOf(event.value))
            /\ handled' = handled + 1
            /\ UNCHANGED contentLog
       ELSE /\ Suspend("awaitEvent", stdout, stderr, patched)
            /\ UNCHANGED <<functionCalls, handled, contentLog>>

\* the stream completes
StreamEnd ==
    /\ pc = "awaitEvent"
    /\ UNCHANGED <<config, env, counters>>
    /\ IF Len(functionCalls) > 0
       THEN /\ Dispatch(1, <<>>, stdout, stderr)
            /\ respLog' = <<>>
       ELSE /\ Finally(Append(stdout, Newline), stderr)
            /\ UNCHANGED <<loopVars, respLog>>

\* the stream throws (the iterator's next() rejects)
StreamThrow ==
    /\ pc = "awaitEvent"
    /\ Catch(stdout, stderr, patched)
    /\ UNCHANGED <<config, env, counters, loopVars, respLog>>

\* executeToolCall resolves with a response; throws: the sendMessageStream
\* call of the next turn throws
ToolReturn(toolResponse, throws) ==
    /\ pc = "awaitTool"
    /\ UNCHANGED <<config, env, counters>>
    /\ respLog' = Append(respLog, toolResponse)
    /\ LET fc == functionCalls[fcIdx]
           out == IF jsonlOutput
                  THEN WriteJsonl(stdout,
                                  ToolResultEvent(callId, fc, toolResponse, now))
                  ELSE stdout
           err == IF toolResponse.error # None
                  THEN Append(stderr,
                              ToolDiag(fc.name,
                                       IF Truthy(toolResponse.resultDisplay)
                                       THEN Get(toolResponse.resultDisplay)
                                       ELSE Get(toolResponse.error).message))
                  ELSE stderr
           trp == NormalizeParts(toolResponseParts, toolResponse.responseParts)
       IN IF ~LoopDone(fcIdx, functionCalls)
          THEN /\ throws = FALSE
               /\ Dispatch(fcIdx + 1, trp, out, err)
          ELSE /\ turnCount < MaxTurns
               /\ BeginTurn(NextBatch(currentMessages, trp), out, err, patched,
                            throws)

\* executeToolCall rejects
ToolThrow ==
    /\ pc = "awaitTool"
    /\ Catch(stdout, stderr, patched)
    /\ UNCHANGED <<config, env, counters, loopVars, respLog>>

\* shutdownTelemetry resolves, runNonInteractive returns
ShutdownDone ==
    /\ pc = "awaitShutdown"
    /\ pc' = "returned"
    /\ telemetryDown' = TRUE
    /\ UNCHANGED <<config, env, counters, loopVars, respLog, stdout, stderr,
                   patched, telemetryInit, exitCode, caught>>

-----------------------------------------------------------------------------
(* The environment *)

\* mutant: the handler reports the closed pipe as a failure
EPipeFails ==
    /\ pc \in Awaits
    /\ pc' = "exited"
    /\ exitCode' = 1
    /\ UNCHANGED <<config, env, counters, loopVars, respLog, stdout, stderr,
                   patched, telemetryInit, telemetryDown, caught>>

\* process.stdout emits 'error' with code EPIPE while the driver is suspended:
\* the handler calls process.exit(0)
EPipe ==
    /\ pc \in Awaits
    /\ pc' = "exited"
    /\ exitCode' = 0
    /\ UNCHANGED <<config, env, counters, loopVars, respLog, stdout, stderr,
                   patched, telemetryInit, telemetryDown, caught>>

\* the signal of the AbortController is aborted while the driver is suspended
Abort ==
    /\ pc \in {"awaitEvent", "awaitTool"}
    /\ ~aborted
    /\ aborted' = TRUE
    /\ UNCHANGED <<config, now, pc, counters, loopVars, respLog, outVars>>

\* the clock advances; its resolution is coarse: events of one stream carry
\* the time of the stream's start, a tool execution takes time
Tick ==
    /\ pc = "awaitTool"
    /\ now < MaxClock
    /\ now' = now + 1
    /\ UNCHANGED <<config, aborted, pc, counters, loopVars, respLog, outVars>>

Next ==
    \/ \E throws \in BOOLEAN : Run(throws)
    \/ \E event \in Events : RecvEvent(event)
    \/ StreamEnd
    \/ StreamThrow
    \/ \E toolResponse \in ToolResponses, throws \in BOOLEAN :
          ToolReturn(toolResponse, throws)
    \/ ToolThrow
    \/ ShutdownDone
    \/ EPipe
    \/ Abort
    \/ Tick

Spec == Init /\ [][Next]_vars

\* the driver on its own: the AbortController is local to runNonInteractive
\* and only its signal is passed on, so nothing outside aborts it
DriverNext ==
    \/ \E throws \in BOOLEAN : Run(throws)
    \/ \E event \in Events : RecvEvent(event)
    \/ StreamEnd
    \/ StreamThrow
    \/ \E toolResponse \in ToolResponses, throws \in BOOLEAN :
          ToolReturn(toolResponse, throws)
    \/ ToolThrow
    \/ ShutdownDone
    \/ EPipe
    \/ Tick

DriverSpec == Init /\ [][DriverNext]_vars

\* the session under its liveness assumptions: the function is called, every
\* event stream of the client ends and every tool execution returns
FairSpec ==
    /\ Spec
    /\ WF_vars(\E throws \in BOOLEAN : Run(throws))
    /\ WF_vars(StreamEnd)
    /\ WF_vars(\E toolResponse \in ToolResponses, throws \in BOOLEAN :
                  ToolReturn(toolResponse, throws))

-----------------------------------------------------------------------------
(* Properties *)

Has(seq, x) == \E i \in 1 .. Len(seq) : seq[i] = x
Count(seq, x) == Cardinality({i \in 1 .. Len(seq) : seq[i] = x})

\* the driver has left the turn loop
Ended == pc \in {"awaitShutdown", "returned", "exited"}
Returning == pc \in {"awaitShutdown", "returned"}

\* the JSON records written to stdout from position from + 1 on
RECURSIVE JsonRecords(_, _)
JsonRecords(out, from) ==
    IF from >= Len(out) THEN <<>>
    ELSE (IF "json" \in DOMAIN out[from + 1] THEN <<out[from + 1].json>> ELSE <<>>)
         \o JsonRecords(out, from + 1)

OfType(recs, type) == SelectSeq(recs, LAMBDA r : r.type = type)

\* C1: with a turn limit L >= 0 at most L exchanges are opened, the limit
\* notice ends the session, and with L = 0 the session opens no exchange,
\* prints the notice and ends without failure; with L < 0 the notice is never
\* printed
C1_TurnLimit ==
    /\ maxSessionTurns >= 0 => Len(sendLog) <= maxSessionTurns
    /\ Has(stderr, LimitNotice) =>
          /\ Ended
          /\ maxSessionTurns >= 0
          /\ turnCount = maxSessionTurns + 1
          /\ Count(stderr, LimitNotice) = 1
    /\ (maxSessionTurns = 0 /\ pc # "start") =>
          /\ sendLog = <<>>
          /\ stderr = <<LimitNotice>>
          /\ Ended
          /\ exitCode # 1
    /\ maxSessionTurns < 0 => ~Has(stderr, LimitNotice)

C1_Witness ==
    /\ maxSessionTurns = 1
    /\ Has(stderr, LimitNotice)
    /\ Len(sendLog) = 1
    /\ pc = "returned"

\* C2: the tool calls of a turn are executed one at a time in the order of
\* their requests: the executions started so far are the first requests, in
\* order, the running one is the only one without a result, in JSONL mode
\* every returned execution has written its tool_result record before the
\* next one starts, and the tool loop is left, for the next turn or the
\* limit notice, only when all N requests have been executed
C2_ExecPrefix ==
    /\ Len(execLog) <= Len(functionCalls)
    /\ \A i \in 1 .. Len(execLog) :
          /\ execLog[i].name = functionCalls[i].name
          /\ functionCalls[i].id # None => execLog[i].callId = Get(functionCalls[i].id)
          /\ functionCalls[i].args # None => execLog[i].args = Get(functionCalls[i].args)
    /\ pc = "awaitEvent" => execLog = <<>>
    /\ pc = "awaitTool" =>
          /\ Len(execLog) = fcIdx
          /\ Len(respLog) = fcIdx - 1
          /\ jsonlOutput =>
                LET results == OfType(JsonRecords(stdout, outMark), "tool_result")
                IN /\ Len(results) = fcIdx - 1
                   /\ \A i \in 1 .. Len(results) :
                         /\ results[i].data.call_id = execLog[i].callId
                         /\ results[i].data.name = execLog[i].name

C2_LoopLeft ==
    (pc = "awaitTool" /\ pc' \in {"awaitEvent", "awaitShutdown", "returned"})
        => /\ Len(functionCalls) >= 1
           /\ Len(execLog) = Len(functionCalls)
           /\ Len(respLog') = Len(functionCalls)
           /\ jsonlOutput =>
                 Len(OfType(JsonRecords(stdout', outMark), "tool_result"))
                     = Len(functionCalls)

C2_SequentialExecution == [](C2_ExecPrefix) /\ [][C2_LoopLeft]_vars

C2_Witness ==
    /\ pc = "awaitEvent"
    /\ turnCount = 2
    /\ jsonlOutput
    /\ Len(respLog) = 2
    /\ Len(OfType(JsonRecords(stdout, 0), "tool_result")) = 2

\* C3: when an event arrives while the cancellation flag is set, the driver
\* prints the cancellation notice and returns; the event is neither written
\* nor accumulated, and after the notice nothing is written, no tool is
\* executed and no exchange is opened
C3_EventUnderCancel ==
    /\ (pc = "awaitEvent" /\ aborted /\ evCount' = evCount + 1)
          => /\ stderr' = Append(stderr, CancelNotice)
             /\ stdout' = stdout
             /\ functionCalls' = functionCalls
             /\ execLog' = <<>>
             /\ sendLog' = sendLog
             /\ pc' \in {"awaitShutdown", "returned"}
    /\ Has(stderr, CancelNotice)
          => /\ stdout' = stdout
             /\ functionCalls' = functionCalls
             /\ execLog' = execLog
             /\ sendLog' = sendLog
             /\ evCount' = evCount
             /\ pc' \in {"returned", "exited"}

C3_CancelWhileDraining == [][C3_EventUnderCancel]_vars

C3_Witness ==
    /\ Has(stderr, CancelNotice)
    /\ Len(functionCalls) = 1
    /\ execLog = <<>>
    /\ handled = 1
    /\ evCount = 2

\* C4 as stated: once the flag is set the driver handles no further event,
\* starts no further tool execution and opens no further exchange
C4_Original ==
    [][aborted => /\ handled' = handled
                  /\ Len(execLog') <= Len(execLog)
                  /\ sendLog' = sendLog]_vars

\* C4 as amended: the flag is looked at only when an event arrives.  Once it
\* is set no further event is written or accumulated and the first event that
\* arrives ends the session with the cancellation notice; a tool execution
\* that returns is still followed by the next pending execution or, after the
\* last one, by the next turn, and a stream that completes without a further
\* event is still followed by the executions of its pending calls
C4_StepUnderCancel ==
    aborted =>
       /\ handled' = handled
       /\ contentLog' = contentLog
       /\ evCount' # evCount =>
             /\ stderr' = Append(stderr, CancelNotice)
             /\ pc' \in {"awaitShutdown", "returned"}
       /\ (pc = "awaitTool" /\ Len(respLog') = Len(respLog) + 1) =>
             IF fcIdx < Len(functionCalls)
             THEN /\ pc' = "awaitTool"
                  /\ Len(execLog') = Len(execLog) + 1
             ELSE /\ turnCount' = turnCount + 1
                  /\ (maxSessionTurns < 0 \/ turnCount' <= maxSessionTurns)
                        => Len(sendLog') = Len(sendLog) + 1
       /\ (pc = "awaitEvent" /\ evCount' = evCount /\ pc' \notin {"exited", "awaitEvent"}) =>
             IF Len(functionCalls) > 0
             THEN pc' = "awaitTool" /\ Len(execLog') = 1
             ELSE pc' \in {"awaitShutdown", "returned"} /\ ~Has(stderr', CancelNotice)

C4_Amended == [][C4_StepUnderCancel]_vars

C4_Witness ==
    /\ aborted
    /\ pc = "awaitTool"
    /\ fcIdx = 2
    /\ Len(respLog) = 1
    /\ ~Has(stderr, CancelNotice)

\* the lines of the text written to stdout: the pieces between newlines, and
\* the piece after the last newline when it is not empty
RECURSIVE LinesFrom(_, _, _)
LinesFrom(out, i, line) ==
    IF i > Len(out) THEN (IF line = <<>> THEN <<>> ELSE <<line>>)
    ELSE IF out[i] = Newline THEN <<line>> \o LinesFrom(out, i + 1, <<>>)
    ELSE LinesFrom(out, i + 1, Append(line, out[i]))

Lines(out) == LinesFrom(out, 1, <<>>)

IsJsonlRecord(line) ==
    /\ Len(line) = 1
    /\ "json" \in DOMAIN line[1]
    /\ {"type", "data", "timestamp"} \subseteq DOMAIN line[1].json
    /\ line[1].json.type \in {"token", "tool_call", "tool_result"}

\* C5 as stated: in JSONL mode every line of stdout is one JSON object of type
\* token, tool_call or tool_result with data and timestamp, one per content
\* event, per tool-call request and per returned execution, and stdout has
\* no other line
C5_Original ==
    jsonlOutput =>
       /\ \A i \in 1 .. Len(Lines(stdout)) : IsJsonlRecord(Lines(stdout)[i])
       /\ Len(OfType(JsonRecords(stdout, 0), "token")) = Len(contentLog)
       /\ Len(OfType(JsonRecords(stdout, outMark), "tool_call")) = Len(functionCalls)

\* the text of the content events, as characters of the output
RECURSIVE PlainText(_)
PlainText(texts) ==
    IF texts = <<>> THEN <<>>
    ELSE [i \in 1 .. Len(Head(texts)) |-> [ch |-> Head(texts)[i]]]
         \o PlainText(Tail(texts))

NormalEnd ==
    /\ Returning
    /\ ~Has(stderr, LimitNotice)
    /\ ~Has(stderr, CancelNotice)

\* C6: in plain mode stdout is the text of the content events in arrival
\* order, nothing else, and a session that ends normally has added exactly
\* one newline after it and has not exited with failure
C6_PlainOutput ==
    ~jsonlOutput =>
       /\ NormalEnd => /\ stdout = PlainText(contentLog) \o <<Newline>>
                       /\ exitCode = NoExit
       /\ ~NormalEnd /\ exitCode # 0 => stdout = PlainText(contentLog)

C6_Witness ==
    /\ ~jsonlOutput
    /\ NormalEnd
    /\ turnCount = 2
    /\ contentLog # <<>>
    /\ pc = "returned"

\* C7 as stated: in JSONL mode the tool_call record, the executor request and
\* the tool_result record of a call carry the same identifier, the explicit
\* one if the request has one, else one synthesized as name-timestamp
C7_Original ==
    jsonlOutput =>
       LET calls == OfType(JsonRecords(stdout, outMark), "tool_call")
           results == OfType(JsonRecords(stdout, outMark), "tool_result")
       IN \A i \in 1 .. Len(execLog) :
             /\ "call_id" \in DOMAIN calls[i].data
             /\ calls[i].data.call_id = execLog[i].callId
             /\ i <= Len(results) => results[i].data.call_id = execLog[i].callId
             /\ functionCalls[i].id # None => execLog[i].callId = Get(functionCalls[i].id)
             /\ functionCalls[i].id = None =>
                   \E t \in 0 .. now :
                      execLog[i].callId = functionCalls[i].name \o <<"-", ToString(t)>>

IsToolDiag(m) == "tool" \in DOMAIN m

\* C8: a tool response that carries an error is reported (diagnostic, and in
\* JSONL mode a tool_result record with the error message) and is not fatal:
\* the next pending call is executed, and after the last one the next turn
\* starts with a single user message, whose parts are what is sent and are
\* empty when no response carried parts
C8_ErrorStep ==
    (pc = "awaitTool" /\ Len(respLog') = Len(respLog) + 1
        /\ respLog'[Len(respLog')].error # None) =>
       LET msg == Get(respLog'[Len(respLog')].error).message IN
       /\ Len(stderr') > Len(stderr)
       /\ IsToolDiag(stderr'[Len(stderr) + 1])
       /\ stderr'[Len(stderr) + 1].tool = functionCalls[fcIdx].name
       /\ jsonlOutput =>
             /\ Len(stdout') = Len(stdout) + 2
             /\ stdout'[Len(stdout) + 1].json.type = "tool_result"
             /\ stdout'[Len(stdout) + 1].json.data.error = msg
       /\ fcIdx < Len(functionCalls) =>
             /\ pc' = "awaitTool"
             /\ fcIdx' = fcIdx + 1
             /\ Len(execLog') = Len(execLog) + 1
       /\ fcIdx = Len(functionCalls) =>
             /\ turnCount' = turnCount + 1
             /\ Len(currentMessages') = 1
             /\ currentMessages'[1].role = "user"
             /\ pc' \in {"awaitShutdown", "returned"} => Has(stderr', LimitNotice)
       /\ pc' = "exited" => Len(sendLog') = Len(sendLog) + 1

C8_NextBatch ==
    (pc = "awaitEvent" /\ turnCount >= 2) =>
       /\ Len(currentMessages) = 1
       /\ currentMessages[1].role = "user"
       /\ sendLog[Len(sendLog)] = currentMessages[1].parts
       /\ (\A i \in 1 .. Len(respLog) : respLog[i].responseParts = PartsUndefined)
             => sendLog[Len(sendLog)] = <<>>

C8_ToolErrorNonFatal == [](C8_NextBatch) /\ [][C8_ErrorStep]_vars

C8_Witness ==
    /\ pc = "awaitEvent"
    /\ turnCount = 2
    /\ jsonlOutput
    /\ \E i \in 1 .. Len(stderr) : IsToolDiag(stderr[i])
    /\ sendLog[Len(sendLog)] = <<>>

\* C9: an exception is caught once, prints one diagnostic, ends the process
\* with status 1, and nothing happens afterwards
C9_Caught ==
    /\ caught <= 1
    /\ caught = 1 <=> exitCode = 1
    /\ exitCode = 1 =>
          /\ pc = "exited"
          /\ Count(stderr, FatalDiag) = 1
          /\ stderr[Len(stderr)] = FatalDiag
    /\ exitCode # 1 => ~Has(stderr, FatalDiag)

C9_FatalError == [](C9_Caught) /\ [][exitCode # 1]_vars

C9_Witness ==
    /\ exitCode = 1
    /\ pc = "exited"
    /\ Len(execLog) = 2
    /\ handled = 2

\* C10 as stated: however the session ends, the console patch has been
\* released and telemetry, if active, has been shut down
C10_Original ==
    pc \in {"returned", "exited"} =>
       /\ patched = "cleaned"
       /\ telemetryInit = Some(TRUE) => telemetryDown

\* C11: a session that ends by the turn limit, by cancellation or by a stream
\* without tool calls returns without a failure status, and a closed pipe,
\* whenever the driver is suspended, ends the process at once with status 0:
\* a process exit that no exception caused is an exit with status 0
C11_GracefulState ==
    /\ (Has(stderr, LimitNotice) \/ Has(stderr, CancelNotice) \/ NormalEnd)
          => /\ exitCode # 1
             /\ caught = 0
             /\ ~Has(stderr, FatalDiag)
    /\ exitCode = 0 => pc = "exited" /\ caught = 0 /\ ~Has(stderr, FatalDiag)

C11_ExitStep ==
    /\ (pc' = "exited" /\ pc # "exited" /\ caught' = caught)
          => /\ pc \in Awaits
             /\ exitCode' = 0
             /\ stdout' = stdout
             /\ stderr' = stderr
             /\ execLog' = execLog
             /\ sendLog' = sendLog
    /\ exitCode = 0 => exitCode' = 0 /\ pc' = "exited"

C11_GracefulExit == [](C11_GracefulState) /\ [][C11_ExitStep]_vars

C11_Witness ==
    /\ exitCode = 0
    /\ pc = "exited"
    /\ fcIdx = 2
    /\ Len(respLog) = 1
    /\ turnCount = 1

\* a tool execution returns in this step, in JSONL mode
ToolResultStep == pc = "awaitTool" /\ Len(respLog') = Len(respLog) + 1 /\ jsonlOutput

\* the tool_result record that step writes, and the response it is about
WrittenRecord == stdout'[Len(stdout) + 1].json
ReturnedResponse == respLog'[Len(respLog')]

ExpectedError(r) == IF r.error # None THEN Get(r.error).message ELSE Null

\* C12 as stated: the result field of a tool_result record is the display
\* string if the response has one, else the error message if it has an error,
\* else Success; the error field is the error message or null
C12_Original ==
    [][ToolResultStep =>
          /\ WrittenRecord.type = "tool_result"
          /\ WrittenRecord.data.result =
                (IF ReturnedResponse.resultDisplay # None
                 THEN Get(ReturnedResponse.resultDisplay)
                 ELSE IF ReturnedResponse.error # None
                 THEN Get(ReturnedResponse.error).message
                 ELSE <<"Success">>)
          /\ WrittenRecord.data.error = ExpectedError(ReturnedResponse)]_vars

\* C12 as amended: the display string is used only when it is not empty; an
\* empty display string falls through to the error message or to Success
C12_Amended ==
    [][ToolResultStep =>
          /\ WrittenRecord.type = "tool_result"
          /\ WrittenRecord.data.result =
                (IF ReturnedResponse.resultDisplay # None
                    /\ Get(ReturnedResponse.resultDisplay) # EmptyString
                 THEN Get(ReturnedResponse.resultDisplay)
                 ELSE IF ReturnedResponse.error # None
                 THEN Get(ReturnedResponse.error).message
                 ELSE <<"Success">>)
          /\ WrittenRecord.data.error = ExpectedError(ReturnedResponse)
          /\ Len(stdout') = Len(stdout) + 2
          /\ stdout'[Len(stdout') ] = Newline]_vars

C12_Witness ==
    /\ jsonlOutput
    /\ pc = "awaitEvent"
    /\ Len(respLog) = 2
    /\ respLog[1].resultDisplay = Some(EmptyString)
    /\ respLog[2].resultDisplay = Some(<<"disp">>)
    /\ respLog[2].error # None
    /\ LET results == OfType(JsonRecords(stdout, 0), "tool_result")
       IN /\ Len(results) = 2
          /\ results[1].data.result = <<"Success">>
          /\ results[1].data.error = Null
          /\ results[2].data.result = <<"disp">>
          /\ results[2].data.error = <<"boom">>

\* the content parts of all the messages of a batch
RECURSIVE AllParts(_)
AllParts(msgs) ==
    IF msgs = <<>> THEN <<>> ELSE Head(msgs).parts \o AllParts(Tail(msgs))

IsPrefix(a, b) == Len(a) <= Len(b) /\ SubSeq(b, 1, Len(a)) = a

\* C13: the batch of a turn is exactly one user message, first the one that
\* holds the input, then the one that replaces it after a turn with tool
\* calls; the parts sent to the agent client are all the parts of the batch,
\* and the replacing message holds every part accumulated in the tool loop
C13_OneMessage ==
    pc # "start" =>
       /\ Len(currentMessages) = 1
       /\ currentMessages[1].role = "user"
       /\ turnCount = 1 => currentMessages[1].parts = <<[text |-> Input]>>
       /\ pc \in {"awaitEvent", "awaitTool"} =>
             /\ Len(sendLog) = turnCount
             /\ sendLog[Len(sendLog)] = AllParts(currentMessages)

C13_Replaced ==
    (pc = "awaitTool" /\ turnCount' = turnCount + 1) =>
       /\ Len(currentMessages') = 1
       /\ IsPrefix(toolResponseParts, currentMessages'[1].parts)
       /\ Len(sendLog') = Len(sendLog) + 1 =>
             sendLog'[Len(sendLog')] = AllParts(currentMessages')

C13_SingleBatch == [](C13_OneMessage) /\ [][C13_Replaced]_vars

C13_Witness ==
    /\ pc = "awaitEvent"
    /\ turnCount = 2
    /\ Len(respLog) = 2
    /\ Len(currentMessages) = 1
    /\ Len(currentMessages[1].parts) = 4
    /\ sendLog[2] = currentMessages[1].parts

\* the parts of a response as a sequence: a single part is a one-element
\* sequence, no parts the empty sequence
AsSequence(rp) ==
    IF "undef" \in DOMAIN rp THEN <<>>
    ELSE IF "one" \in DOMAIN rp THEN <<rp.one>>
    ELSE rp.arr

\* a plain-text part is wrapped, another non-falsy part is kept, a falsy
\* entry is skipped; the order is kept
RECURSIVE WrapParts(_)
WrapParts(ps) ==
    IF ps = <<>> THEN <<>>
    ELSE (IF "str" \in DOMAIN Head(ps) THEN <<[text |-> Head(ps).str]>>
          ELSE IF "obj" \in DOMAIN Head(ps) THEN <<Head(ps)>>
          ELSE <<>>)
         \o WrapParts(Tail(ps))

RECURSIVE ConcatNormalized(_)
ConcatNormalized(resps) ==
    IF resps = <<>> THEN <<>>
    ELSE WrapParts(AsSequence(Head(resps).responseParts))
         \o ConcatNormalized(Tail(resps))

\* C14 as stated: after a turn with tool calls the parts of the next user
\* message are the concatenation, in tool-call order, of the normalized parts
\* of each response
C14_Original ==
    (pc = "awaitEvent" /\ turnCount >= 2) =>
       currentMessages[1].parts = ConcatNormalized(respLog)

\* the three ways a step can make runNonInteractive return
OverLimit == maxSessionTurns >= 0 /\ turnCount > maxSessionTurns

LimitExit ==
    /\ pc \in {"start", "awaitTool"}
    /\ turnCount' = turnCount + 1
    /\ OverLimit'
    /\ Len(stderr') > 0
    /\ stderr'[Len(stderr')] = LimitNotice
    /\ sendLog' = sendLog

NoToolCallsExit ==
    /\ pc = "awaitEvent"
    /\ functionCalls = <<>>
    /\ evCount' = evCount
    /\ stdout' = Append(stdout, Newline)
    /\ stderr' = stderr
    /\ turnCount' = turnCount

CancelExit ==
    /\ pc = "awaitEvent"
    /\ aborted
    /\ evCount' = evCount + 1
    /\ stderr' = Append(stderr, CancelNotice)
    /\ stdout' = stdout
    /\ turnCount' = turnCount

ExitsTaken ==
    (IF LimitExit THEN 1 ELSE 0) + (IF NoToolCallsExit THEN 1 ELSE 0)
        + (IF CancelExit THEN 1 ELSE 0)

\* C15: a step that makes the driver leave the turn loop by returning is
\* exactly one of the limit exit, the exit of a stream without tool calls and
\* the cancellation exit; a stream that completes with tool calls starts the
\* tool loop, and the return of its last tool execution is followed by the
\* increment and the limit test of the next turn
C15_ReturnStep ==
    /\ (~Returning /\ Returning') => ExitsTaken = 1
    /\ (pc = "awaitEvent" /\ evCount' = evCount /\ Len(functionCalls) > 0
           /\ pc' \notin {"awaitEvent", "exited"})
          => pc' = "awaitTool" /\ fcIdx' = 1
    /\ (pc = "awaitTool" /\ Len(respLog') = Len(respLog) + 1
           /\ fcIdx = Len(functionCalls))
          => /\ turnCount' = turnCount + 1
             /\ OverLimit' <=> Returning'
             /\ ~OverLimit'
                   => Len(sendLog') = Len(sendLog) + 1

C15_Returned ==
    Returning => /\ exitCode = NoExit
                 /\ caught = 0
                 /\ patched = "cleaned"

C15_ThreeExits == [](C15_Returned) /\ [][C15_ReturnStep]_vars

C15_Witness ==
    /\ pc = "returned"
    /\ Has(stderr, LimitNotice)
    /\ Len(respLog) = 2
    /\ turnCount = 2
    /\ telemetryDown

\* the records of the current turn, and the names and texts they carry
TurnRecords == JsonRecords(stdout, outMark)
NamesOf(recs) == [i \in 1 .. Len(recs) |-> recs[i].data.name]
DataOf(recs) == [i \in 1 .. Len(recs) |-> recs[i].data]
CallNames == [i \in 1 .. Len(functionCalls) |-> functionCalls[i].name]

\* the records a step appends to stdout
Appended == JsonRecords(stdout', Len(stdout))

\* C16: in JSONL mode stdout only grows; token records carry the content
\* texts in arrival order and the tool_call records of a turn its requests
\* in arrival order; token and tool_call records are written while the turn
\* has no tool_result record, the k-th tool_result record of a turn is
\* written after all its tool_call records and carries the name of the k-th
\* one; a new turn starts after every record of the turn before it
C16_TurnRecords ==
    jsonlOutput =>
       /\ DataOf(OfType(JsonRecords(stdout, 0), "token")) = contentLog
       /\ NamesOf(OfType(TurnRecords, "tool_call")) = CallNames
       /\ outMark <= Len(stdout)
       /\ pc = "awaitEvent" => OfType(TurnRecords, "tool_result") = <<>>
       /\ pc = "awaitTool" =>
             NamesOf(OfType(TurnRecords, "tool_result"))
                = SubSeq(CallNames, 1, fcIdx - 1)

C16_AppendStep ==
    jsonlOutput =>
       /\ IsPrefix(stdout, stdout')
       /\ Len(Appended) <= 1
       /\ \A i \in 1 .. Len(Appended) :
             IF Appended[i].type = "tool_result"
             THEN /\ pc = "awaitTool"
                  /\ LET calls == OfType(TurnRecords, "tool_call")
                         results == OfType(TurnRecords, "tool_result")
                     IN /\ Len(calls) = Len(functionCalls)
                        /\ Len(results) = fcIdx - 1
                        /\ Appended[i].data.name = calls[fcIdx].data.name
             ELSE /\ pc = "awaitEvent"
                  /\ pc' = "awaitEvent"
                  /\ outMark' = outMark
                  /\ OfType(TurnRecords, "tool_result") = <<>>
       /\ outMark' # outMark => outMark' = Len(stdout') /\ turnCount' = turnCount + 1

C16_RecordOrder == [](C16_TurnRecords) /\ [][C16_AppendStep]_vars

C16_Witness ==
    /\ jsonlOutput
    /\ pc = "awaitEvent"
    /\ turnCount = 2
    /\ LET recs == JsonRecords(stdout, 0)
       IN /\ Len(recs) = 3
          /\ recs[1].type = "token"
          /\ recs[2].type = "tool_call"
          /\ recs[3].type = "tool_result"
          /\ recs[3].data.name = recs[2].data.name

\* a step in which the last tool execution of a turn returns
LastToolReturns ==
    /\ pc = "awaitTool"
    /\ fcIdx = Len(functionCalls)
    /\ Len(respLog') = Len(respLog) + 1

\* C17: with a turn limit L >= 0 the turn counter never exceeds L + 1 and the
\* session eventually leaves the turn loop, given that every stream ends and
\* every tool execution returns; with L < 0 the limit exit is never taken and
\* the return of the last tool execution of a turn never ends the session by
\* a return: it starts the next turn (or fails in the send)
C17_Bounded == maxSessionTurns >= 0 => turnCount <= maxSessionTurns + 1
C17_Unlimited == maxSessionTurns < 0 => ~Has(stderr, LimitNotice)
C17_UnlimitedStep ==
    (maxSessionTurns < 0 /\ LastToolReturns)
       => /\ turnCount' = turnCount + 1
          /\ pc' \in {"awaitEvent", "exited"}
          /\ pc' = "exited" => caught' = caught + 1
C17_Termination ==
    /\ [](C17_Bounded /\ C17_Unlimited)
    /\ [][C17_UnlimitedStep]_vars
    /\ <>(maxSessionTurns < 0 \/ Ended)

C17_Witness ==
    /\ maxSessionTurns = 1
    /\ turnCount = maxSessionTurns + 1
    /\ handled = 2
    /\ Has(stderr, LimitNotice)
    /\ pc = "returned"

\* C18: no step of the driver changes the cancellation flag, whether it
\* starts a turn, handles an event, dispatches a tool execution, builds the
\* next batch or terminates; without a step from outside the flag stays
\* unset and the cancellation notice is never printed
C18_FlagUnset == ~aborted /\ ~Has(stderr, CancelNotice)
C18_FrameStep == aborted' = aborted
C18_NoCancel == [](C18_FlagUnset) /\ [][C18_FrameStep]_vars

C18_Witness ==
    /\ ~aborted
    /\ pc = "returned"
    /\ turnCount = 2
    /\ handled = 2
    /\ Len(respLog) = 1
    /\ sendLog # <<>>
    /\ execLog = <<>>

====
